---- MODULE Spec2Model ----
(***************************************************************************)
(* A model of code/eq_phase_rec.py: phase / isostable reconstruction of an *)
(* oscillator from its equations.                                          *)
(*                                                                         *)
(* Time is counted in integer ticks.  A vector field is given by the       *)
(* waveform of coordinate 0 along its limit cycle (a piecewise linear,     *)
(* periodic function of the phase position th) and by a transverse         *)
(* contraction rate.  A state is [th, sg, lev]: the position th on the     *)
(* cycle (ticks, modulo the true period), the side sg (0 on the cycle, 1   *)
(* outside, -1 inside) and the base-2 logarithm lev of the distance from   *)
(* the cycle.                                                              *)
(***************************************************************************)
EXTENDS Integers, Sequences, FiniteSets, TLC

VARIABLES pc, fld, state, thr, dt, period, i, time, xh, hist, fn, sampling, limitc, cfg, res

vars == <<pc, fld, state, thr, dt, period, i, time, xh, hist, fn, sampling, limitc, cfg, res>>

---------------------------------------------------------------------------
(* Bounds of the model *)

\* largest |dt| (ticks) a caller passes
MaxDt == 3
\* largest |duration| (ticks) handed to integrate_period on its own
MaxDur == 7
\* the step counter of a crossing loop saturates here (more than any cycle has ticks)
MaxSteps == 20
\* largest number of warm-up periods a caller passes
MaxWarm == 1
\* largest sampling count a caller passes
MaxSampling == 4
\* largest number_of_isostables a caller passes
MaxIso == 2
\* largest isochron_resolution a caller passes
MaxRes == 3
\* thresholds inside the range of coordinate 0 are -MaxThr..MaxThr
MaxThr == 1
\* a threshold above the range of coordinate 0 on every cycle
OutThr == 9

---------------------------------------------------------------------------
(* Program constants (defaults of the signatures), in ticks / periods *)

\* dt=0.005: four ticks
DefaultDt == 4
\* oscillator_phase(..., warmup_periods=5, ...)
DefaultWarmupPeriods == 5

---------------------------------------------------------------------------
(* Arithmetic *)

Abs(a) == IF a < 0 THEN -a ELSE a

Sign(a) == IF a < 0 THEN -1 ELSE IF a > 0 THEN 1 ELSE 0

\* math.floor(a/b), b # 0
Floor(a, b) == IF b > 0 THEN a \div b ELSE (-a) \div (-b)

\* int(a/b): truncation toward zero, b # 0
Trunc(a, b) == Sign(a) * Sign(b) * (Abs(a) \div Abs(b))

\* a/b rounded to the nearest tick (ties away from zero), b # 0
DivRound(a, b) == Sign(a) * Sign(b) * ((2 * Abs(a) + Abs(b)) \div (2 * Abs(b)))

RECURSIVE SumSeq(_)
SumSeq(s) == IF s = <<>> THEN 0 ELSE Head(s) + SumSeq(Tail(s))

RECURSIVE Pow2(_)
Pow2(n) == IF n <= 0 THEN 1 ELSE 2 * Pow2(n - 1)

---------------------------------------------------------------------------
(* Vector fields: ders *)

\* slope of coordinate 0 on [th, th+1), one entry per tick of the cycle:
\* a triangle wave, a rise that is steep and then flat (concave where it
\* crosses the thresholds), a rise that is flat and then steep (convex)
Slopes ==
  << <<1, 1, 1, 1, 1, 1, 1, 1, -1, -1, -1, -1, -1, -1, -1, -1>>,
     <<1, 1, 3, 2, 1, 1, 1, 1, -1, -1, -3, -2, -1, -1, -1, -1>>,
     <<1, 1, 1, 1, 1, 3, 2, 1, -1, -1, -1, -1, -1, -3, -2, -1>> >>

\* coordinate 0 at th = 0
Base == <<-4, -4, -4>>

FieldIds == 1..Len(Slopes)

\* the true period of field f, in ticks
TruePeriod(f) == Len(Slopes[f])

\* transverse contraction: the distance from the cycle halves every
\* HalfLife ticks of forward time
HalfLife == 8

RECURSIVE Wave(_, _)
Wave(f, th) == IF th = 0 THEN Base[f] ELSE Wave(f, th - 1) + Slopes[f][th]

\* state[0]
X0(f, s) == Wave(f, s.th)

\* ders[0](state)
Ders0(f, s) == Slopes[f][s.th + 1]

OnCycle(f) == [th : 0..(TruePeriod(f) - 1), sg : {0}, lev : {0}]

\* lev of the perturbed states of the model: the distance from the cycle
\* is 2^(lev/HalfLife)
InitLev(f) == 2 * TruePeriod(f)

\* states on the cycle and at distance 2^InitLev on either side of it
States(f) ==
  OnCycle(f) \cup [th : 0..(TruePeriod(f) - 1), sg : {-1, 1}, lev : {InitLev(f)}]

---------------------------------------------------------------------------
(* Integrator *)

\* one_step_integrator: the field's flow over one step of h ticks (h may be
\* negative); the cycle is invariant, off it lev falls by one per tick
one_step_integrator(f, s, h) ==
  [th |-> (s.th + h) % TruePeriod(f),
   sg |-> s.sg,
   lev |-> IF s.sg = 0 THEN 0 ELSE s.lev - h]

\* range(floor(period/dt)): the number of iterations of the loop of
\* integrate_period
NumFullStepsOffByOne(per, h) == Floor(per, h) + 1
NumFullSteps(per, h) == Floor(per, h)

\* period-floor(period/dt)*dt: the final step of integrate_period
LastStep(per, h) == per - Floor(per, h) * h

\* the step sizes integrate_period applies, in order
StepSizes(per, h) ==
  LET n == NumFullSteps(per, h)
  IN  [k \in 1..(IF n > 0 THEN n ELSE 0) |-> h] \o <<LastStep(per, h)>>

\* the state after the steps hs, applied to s in order (the test on s.th
\* has each intermediate state evaluated before the next step is taken)
RECURSIVE ApplySteps(_, _, _)
ApplySteps(f, s, hs) ==
  IF hs = <<>> \/ s.th \notin 0..(TruePeriod(f) - 1) THEN s
  ELSE ApplySteps(f, one_step_integrator(f, s, Head(hs)), Tail(hs))

integrate_period(f, s, per, h) == ApplySteps(f, s, StepSizes(per, h))

---------------------------------------------------------------------------
(* integrate_period, step by step *)

InitIP ==
  /\ pc = "ip_loop"
  /\ fld \in FieldIds
  /\ state \in {s \in OnCycle(fld) : s.th = 0}
  /\ dt \in ((-MaxDt)..MaxDt) \ {0}
  /\ period \in (-MaxDur)..MaxDur
  /\ i = 0
  /\ hist = <<>>
  /\ thr = 0 /\ time = 0 /\ xh = 0 /\ fn = "integrate_period"
  /\ sampling = 0 /\ limitc = <<>> /\ cfg = <<>> /\ res = <<>>

\* line 52-53
IPStep ==
  /\ pc = "ip_loop"
  /\ i < NumFullSteps(period, dt)
  /\ state' = one_step_integrator(fld, state, dt)
  /\ i' = i + 1
  /\ hist' = Append(hist, dt)
  /\ UNCHANGED <<pc, fld, thr, dt, period, time, xh, fn, sampling, limitc, cfg, res>>

\* line 54-55
IPLast ==
  /\ pc = "ip_loop"
  /\ ~(i < NumFullSteps(period, dt))
  /\ state' = one_step_integrator(fld, state, LastStep(period, dt))
  /\ hist' = Append(hist, LastStep(period, dt))
  /\ pc' = "done"
  /\ UNCHANGED <<fld, thr, dt, period, i, time, xh, fn, sampling, limitc, cfg, res>>

NextIP == IPStep \/ IPLast

SpecIP == InitIP /\ [][NextIP]_vars

\* C1 (as stated): integrate_period takes floor(duration/dt) steps of dt plus
\* one step of the remainder and the step sizes sum to duration, for every
\* non-zero dt and every duration, whatever their signs.
C1_AsStated ==
  pc = "done" =>
    /\ Len(hist) = Floor(period, dt) + 1
    /\ SumSeq(hist) = period

\* C1 (amended): the steps applied are max(0, floor(duration/dt)) steps of dt
\* followed by one step of duration - floor(duration/dt)*dt; they sum to
\* duration whenever duration/dt >= 0 (same sign, or duration zero), and the
\* state returned is the flow of the start state over that sum.  With
\* opposite signs no full step is taken and only the remainder is applied.
C1_SameSign ==
  pc = "done" =>
    /\ hist = StepSizes(period, dt)
    /\ \A k \in 1..(Len(hist) - 1) : hist[k] = dt
    /\ hist[Len(hist)] = period - Floor(period, dt) * dt
    /\ state.th = SumSeq(hist) % TruePeriod(fld)
    /\ period * dt >= 0 =>
         /\ Len(hist) = Floor(period, dt) + 1
         /\ SumSeq(hist) = period
    /\ period * dt < 0 =>
         /\ Len(hist) = 1
         /\ SumSeq(hist) = period - Floor(period, dt) * dt

\* backward integration over several full steps and a non-zero remainder
C1_Witness ==
  /\ pc = "done"
  /\ dt < 0 /\ period < 0
  /\ Len(hist) >= 3
  /\ hist[Len(hist)] # 0

---------------------------------------------------------------------------
(* Crossing detection: integrate_up_to_thr and time_up_to_thr, step by step *)

ThrSet == ((-MaxThr)..MaxThr) \cup {OutThr}

\* the steps dt of the callers: at least two ticks
DtSet == 2..MaxDt

\* the condition of the while loops (lines 67 and 86): TRUE = keep stepping
ContinueNonStrict(x, xhv, t) == ((x > t /\ xhv <= t) = FALSE)
ContinueOr(x, xhv, t) == ((x > t \/ xhv < t) = FALSE)
Continue(x, xhv, t) == ((x > t /\ xhv < t) = FALSE)

\* the Henon trick, dt_over (lines 71 and 91), rounded to the tick
DtOver(f, s, t) == DivRound(X0(f, s) - t, Ders0(f, s))

InitThr ==
  /\ pc = "thr_loop"
  /\ fn \in {"integrate_up_to_thr", "time_up_to_thr"}
  /\ fld \in FieldIds
  /\ state \in OnCycle(fld)
  /\ thr \in ThrSet
  /\ dt \in DtSet
  /\ xh = X0(fld, state)
  /\ time = 0
  /\ i = 0
  /\ hist = [strictN |-> 0, ruleN |-> 0]
  /\ period = 0 /\ sampling = 0 /\ limitc = <<>> /\ cfg = <<>> /\ res = <<>>

\* lines 67-69 and 86-89: one iteration of the loop.  i counts the
\* iterations and saturates at MaxSteps, and time with it.
ThrStep ==
  /\ pc = "thr_loop"
  /\ Continue(X0(fld, state), xh, thr)
  /\ xh' = X0(fld, state)
  /\ state' = one_step_integrator(fld, state, dt)
  /\ i' = IF i < MaxSteps THEN i + 1 ELSE i
  /\ time' = IF fn = "time_up_to_thr" /\ i < MaxSteps THEN time + dt ELSE time
  /\ hist' = [strictN |-> IF hist.strictN = 0 /\ xh' < thr /\ thr < X0(fld, state')
                          THEN i' ELSE hist.strictN,
              ruleN |-> IF hist.ruleN = 0 /\ xh' <= thr /\ thr < X0(fld, state')
                        THEN i' ELSE hist.ruleN]
  /\ UNCHANGED <<pc, fld, thr, dt, period, fn, sampling, limitc, cfg, res>>

\* lines 70-73 and 90-92: the loop has ended; Henon trick and return
ThrExit ==
  /\ pc = "thr_loop"
  /\ ~Continue(X0(fld, state), xh, thr)
  /\ LET dt_over == DtOver(fld, state, thr)
     IN  IF fn = "integrate_up_to_thr"
         THEN /\ state' = one_step_integrator(fld, state, -dt_over)
              /\ res' = <<state'>>
         ELSE /\ state' = state
              /\ res' = <<time - dt_over>>
  /\ pc' = "done"
  /\ UNCHANGED <<fld, thr, dt, period, i, time, xh, hist, fn, sampling, limitc, cfg>>

NextThr == ThrStep \/ ThrExit

\* the program keeps running: a loop that can iterate does
SpecThr == InitThr /\ [][NextThr]_vars /\ WF_vars(NextThr)

\* C2 (as stated): the loop stops at exactly the first step for which
\* previous <= thr < current: at every test of the loop condition after a
\* step the code stops iff that rule says stop, and it returns after the
\* number of steps at which the rule first held.
C2_AsStated ==
  /\ (pc = "thr_loop" /\ i >= 1) =>
       (~Continue(X0(fld, state), xh, thr) <=> (xh <= thr /\ thr < X0(fld, state)))
  /\ pc = "done" => i = hist.ruleN

\* C2 (amended): the loop stops at exactly the first step for which
\* previous < thr < current (both comparisons strict): at every test of the
\* loop condition the code stops iff that rule says stop, and it returns
\* after the number of steps at which the strict rule first held; a step
\* that lands exactly on thr is not a detected crossing.
C2_Strict ==
  /\ pc = "thr_loop" =>
       (~Continue(X0(fld, state), xh, thr) <=> (xh < thr /\ thr < X0(fld, state)))
  /\ pc = "done" => (i = hist.strictN /\ i >= 1)
  /\ (pc = "thr_loop" /\ hist.strictN # 0) => ~Continue(X0(fld, state), xh, thr)
  /\ (pc = "thr_loop" /\ xh = thr /\ i >= 1) => Continue(X0(fld, state), xh, thr)

\* the loop has returned although an earlier step landed exactly on thr and
\* went on upward from there
C2_Witness ==
  /\ pc = "done"
  /\ hist.ruleN # 0
  /\ hist.ruleN < hist.strictN

\* the stepped trajectory from s (previous value xhv) has a pair of
\* consecutive values with previous < t < current (strict) ...
StrictAhead(f, s, xhv, t, h) ==
  \/ xhv < t /\ t < X0(f, s)
  \/ \E k \in 0..(TruePeriod(f) - 1) :
       /\ X0(f, one_step_integrator(f, s, k * h)) < t
       /\ t < X0(f, one_step_integrator(f, s, (k + 1) * h))

\* ... or with previous <= t < current (an upward crossing of t)
CrossingAhead(f, s, xhv, t, h) ==
  \/ xhv <= t /\ t < X0(f, s)
  \/ \E k \in 0..(TruePeriod(f) - 1) :
       /\ X0(f, one_step_integrator(f, s, k * h)) <= t
       /\ t < X0(f, one_step_integrator(f, s, (k + 1) * h))

\* C8 (as stated): the routines return if and only if the stepped trajectory
\* eventually makes an upward crossing of thr (previous <= thr < current):
\* they never return when there is none, and when there is one they return
\* at the first such crossing, after at least one step.
C8_AsStated ==
  /\ [](pc = "done" => (i >= 1 /\ i = hist.ruleN))
  /\ []((pc = "thr_loop" /\ CrossingAhead(fld, state, xh, thr, dt)) => <>(pc = "done"))
  /\ []((pc = "thr_loop" /\ ~CrossingAhead(fld, state, xh, thr, dt)) => [](pc = "thr_loop"))

\* C8 (amended): the routines return if and only if the stepped trajectory
\* eventually makes a step with previous < thr < current (both strict; a
\* step landing exactly on thr does not count): they loop forever when there
\* is none, and when there is one they return at the first such step, after
\* at least one integration step.
C8_Strict ==
  /\ [](pc = "done" => (i >= 1 /\ i = hist.strictN))
  /\ []((pc = "thr_loop" /\ StrictAhead(fld, state, xh, thr, dt)) => <>(pc = "done"))
  /\ []((pc = "thr_loop" /\ ~StrictAhead(fld, state, xh, thr, dt)) =>
          [](pc = "thr_loop" /\ ENABLED ThrStep))

\* the loop is still running after more steps than the cycle has ticks,
\* with thr inside the range of coordinate 0
C8_Witness ==
  /\ pc = "thr_loop"
  /\ i > TruePeriod(fld)
  /\ thr # OutThr
  /\ CrossingAhead(fld, state, xh, thr, dt)

---------------------------------------------------------------------------
(* The crossing routines as functions of their arguments *)

\* the while loop of lines 67-69 / 86-89 from state s with previous value
\* xhv after n iterations: the state and the iteration count at its end;
\* ok = FALSE when the loop has not ended after MaxSteps iterations (every
\* stepped trajectory repeats itself earlier, so it never ends)
RECURSIVE ThrLoop(_, _, _, _, _, _)
ThrLoop(f, s, xhv, t, h, n) ==
  IF ~Continue(X0(f, s), xhv, t) THEN [ok |-> TRUE, state |-> s, n |-> n]
  ELSE IF n >= MaxSteps THEN [ok |-> FALSE, state |-> s, n |-> n]
  ELSE ThrLoop(f, one_step_integrator(f, s, h), X0(f, s), t, h, n + 1)

\* integrate_up_to_thr: [ok, state]
integrate_up_to_thr(f, s, t, h) ==
  LET r == ThrLoop(f, s, X0(f, s), t, h, 0)
  IN  [ok |-> r.ok,
       state |-> IF r.ok THEN one_step_integrator(f, r.state, -DtOver(f, r.state, t))
                 ELSE r.state]

\* time_up_to_thr: [ok, time]
time_up_to_thr(f, s, t, h) ==
  LET r == ThrLoop(f, s, X0(f, s), t, h, 0)
  IN  [ok |-> r.ok,
       time |-> IF r.ok THEN r.n * h - DtOver(f, r.state, t) ELSE 0]

---------------------------------------------------------------------------
(* oscillator_phase *)

WarmSet == 0..MaxWarm

InitPhase ==
  /\ pc = "phase_warmup"
  /\ fn = "oscillator_phase"
  /\ fld \in FieldIds
  /\ state \in States(fld)
  /\ period = TruePeriod(fld)
  /\ thr \in ThrSet
  /\ dt \in DtSet
  /\ cfg \in [warmup_periods : WarmSet]
  /\ hist = state
  /\ time = 0 /\ i = 0 /\ xh = 0
  /\ sampling = 0 /\ limitc = <<>> /\ res = <<>>

\* line 195
PhaseWarmup ==
  /\ pc = "phase_warmup"
  /\ state' = integrate_period(fld, state, cfg.warmup_periods * period, dt)
  /\ pc' = "phase_time"
  /\ UNCHANGED <<fld, thr, dt, period, i, time, xh, hist, fn, sampling, limitc, cfg, res>>

\* lines 197-198; the phase returned is 2*pi*(1-time/period), kept here as
\* period - time, the phase in units of 2*pi/period
PhaseTime ==
  /\ pc = "phase_time"
  /\ LET r == time_up_to_thr(fld, state, thr, dt)
     IN  /\ r.ok
         /\ time' = r.time
         /\ res' = <<period - r.time>>
  /\ pc' = "done"
  /\ UNCHANGED <<fld, state, thr, dt, period, i, xh, hist, fn, sampling, limitc, cfg>>

\* line 197 when the loop of time_up_to_thr never ends
PhaseHang ==
  /\ pc = "phase_time"
  /\ ~time_up_to_thr(fld, state, thr, dt).ok
  /\ pc' = "hang"
  /\ UNCHANGED <<fld, state, thr, dt, period, i, time, xh, hist, fn, sampling, limitc, cfg, res>>

NextPhase == PhaseWarmup \/ PhaseTime \/ PhaseHang

SpecPhase == InitPhase /\ [][NextPhase]_vars

\* C3: oscillator_phase returns a value in [0, 2*pi): the time to the next
\* detected upward crossing measured after the warm-up satisfies
\* 0 < time <= period, so the phase (in units of 2*pi/period) is in
\* 0..period-1.
C3_AsStated ==
  pc = "done" =>
    /\ 0 < time /\ time <= period
    /\ 0 <= res[1] /\ res[1] < period

---------------------------------------------------------------------------
(* oscillator_period and sample_limit_cycle *)

\* oscillator_period (lines 105-112), after set_initial_state: [ok, period];
\* ok = FALSE when one of its two crossing loops never ends
oscillator_period(f, s, warmup_time, t, h) ==
  LET s1 == integrate_period(f, s, warmup_time, h)
      r2 == integrate_up_to_thr(f, s1, t, h)
      s3 == one_step_integrator(f, r2.state, h)
      r4 == time_up_to_thr(f, s3, t, h)
  IN  [ok |-> r2.ok /\ r4.ok,
       period |-> IF r2.ok /\ r4.ok THEN h + r4.time ELSE 0]

\* a program that measures the period with oscillator_period and then
\* samples the limit cycle with the same field, warm-up, thr and dt, or
\* samples it at once
InitSample ==
  /\ pc \in {"osc_period", "slc_warmup"}
  /\ fn = "sample_limit_cycle"
  /\ fld \in FieldIds
  /\ state \in OnCycle(fld)
  /\ thr \in ThrSet
  /\ dt \in DtSet
  /\ cfg \in [warmup_time : {0, TruePeriod(fld)}, period_is_None : BOOLEAN]
  /\ hist = <<>>
  /\ limitc = <<>>
  /\ res = <<>>
  /\ period = 0 /\ sampling = 0 /\ time = 0 /\ i = 0 /\ xh = 0

\* period = oscillator_period(ders, initial_state, warmup_time, thr, dt)
OscPeriod ==
  /\ pc = "osc_period"
  /\ LET r == oscillator_period(fld, state, cfg.warmup_time, thr, dt)
     IN  /\ r.ok
         /\ res' = <<r.period>>
  /\ pc' = "slc_warmup"
  /\ UNCHANGED <<fld, state, thr, dt, period, i, time, xh, hist, fn, sampling, limitc, cfg>>

\* oscillator_period does not return
OscPeriodHang ==
  /\ pc = "osc_period"
  /\ ~oscillator_period(fld, state, cfg.warmup_time, thr, dt).ok
  /\ pc' = "hang"
  /\ UNCHANGED <<fld, state, thr, dt, period, i, time, xh, hist, fn, sampling, limitc, cfg, res>>

\* line 129
SLCWarmup ==
  /\ pc = "slc_warmup"
  /\ state' = integrate_period(fld, state, cfg.warmup_time, dt)
  /\ pc' = "slc_period"
  /\ UNCHANGED <<fld, thr, dt, period, i, time, xh, hist, fn, sampling, limitc, cfg, res>>

\* lines 131-133, period == None: the period is measured
SLCMeasure ==
  /\ pc = "slc_period"
  /\ cfg.period_is_None
  /\ LET r1 == integrate_up_to_thr(fld, state, thr, dt)
         r2 == time_up_to_thr(fld, r1.state, thr, dt)
     IN  /\ r1.ok /\ r2.ok
         /\ state' = r1.state
         /\ period' = r2.time
  /\ pc' = "slc_locate"
  /\ UNCHANGED <<fld, thr, dt, i, time, xh, hist, fn, sampling, limitc, cfg, res>>

\* lines 132-133 when a crossing loop never ends
SLCMeasureHang ==
  /\ pc = "slc_period"
  /\ cfg.period_is_None
  /\ LET r1 == integrate_up_to_thr(fld, state, thr, dt)
     IN  ~r1.ok \/ ~time_up_to_thr(fld, r1.state, thr, dt).ok
  /\ pc' = "hang"
  /\ UNCHANGED <<fld, state, thr, dt, period, i, time, xh, hist, fn, sampling, limitc, cfg, res>>

\* line 131, the caller gave the period
SLCGiven ==
  /\ pc = "slc_period"
  /\ ~cfg.period_is_None
  /\ period' = TruePeriod(fld)
  /\ pc' = "slc_locate"
  /\ UNCHANGED <<fld, state, thr, dt, i, time, xh, hist, fn, sampling, limitc, cfg, res>>

\* lines 135-137: the zero-phase crossing is located; the caller's sampling
\* count is one of those for which period/sampling is a whole number of ticks
SLCLocate ==
  /\ pc = "slc_locate"
  /\ LET r == integrate_up_to_thr(fld, state, thr, dt)
     IN  /\ r.ok
         /\ state' = r.state
  /\ \E n \in 1..MaxSampling :
       /\ period % n = 0
       /\ sampling' = n
  /\ limitc' = <<>>
  /\ hist' = <<>>
  /\ time' = 0
  /\ i' = 0
  /\ pc' = "slc_loop"
  /\ UNCHANGED <<fld, thr, dt, period, xh, fn, cfg, res>>

\* line 135 when the crossing loop never ends
SLCLocateHang ==
  /\ pc = "slc_locate"
  /\ ~integrate_up_to_thr(fld, state, thr, dt).ok
  /\ pc' = "hang"
  /\ UNCHANGED <<fld, state, thr, dt, period, i, time, xh, hist, fn, sampling, limitc, cfg, res>>

\* lines 138-140: one sample; time is the sum of the step sizes applied
\* since the crossing and hist its value at each sample
SLCSample ==
  /\ pc = "slc_loop"
  /\ i < sampling
  /\ limitc' = Append(limitc, state)
  /\ hist' = Append(hist, time)
  /\ state' = integrate_period(fld, state, period \div sampling, dt)
  /\ time' = time + SumSeq(StepSizes(period \div sampling, dt))
  /\ i' = i + 1
  /\ UNCHANGED <<pc, fld, thr, dt, period, xh, fn, sampling, cfg, res>>

\* lines 141-142
SLCClose ==
  /\ pc = "slc_loop"
  /\ ~(i < sampling)
  /\ limitc' = Append(limitc, limitc[1])
  /\ pc' = "done"
  /\ UNCHANGED <<fld, state, thr, dt, period, i, time, xh, hist, fn, sampling, cfg, res>>

NextSample ==
  \/ OscPeriod \/ OscPeriodHang
  \/ SLCWarmup \/ SLCMeasure \/ SLCMeasureHang \/ SLCGiven
  \/ SLCLocate \/ SLCLocateHang \/ SLCSample \/ SLCClose

SpecSample == InitSample /\ [][NextSample]_vars

\* C7: the list returned by sample_limit_cycle has sampling+1 elements, its
\* first and last elements are equal, and element i (0 <= i < sampling) is
\* the state reached exactly i*period/sampling of elapsed integration time
\* after the located zero-phase crossing.
C7_AsStated ==
  pc = "done" =>
    /\ Len(limitc) = sampling + 1
    /\ limitc[1] = limitc[sampling + 1]
    /\ \A k \in 1..sampling :
         /\ hist[k] = (k - 1) * (period \div sampling)
         /\ limitc[k] = one_step_integrator(fld, limitc[1], (k - 1) * (period \div sampling))

\* C10: the period measured inside sample_limit_cycle (period None) equals
\* the one oscillator_period measures for the same field, warm-up, thr and
\* dt: the crossing just located is not detected again as the next one.
C10_AsStated ==
  (pc = "done" /\ cfg.period_is_None /\ res # <<>>) => period = res[1]

---------------------------------------------------------------------------
(* oscillator_floquet *)

\* lines 138-140 as a function: the samples taken from s on
RECURSIVE SampleLoop(_, _, _, _, _)
SampleLoop(f, s, n, step, h) ==
  IF n <= 0 \/ s.th \notin 0..(TruePeriod(f) - 1) THEN <<>>
  ELSE <<s>> \o SampleLoop(f, integrate_period(f, s, step, h), n - 1, step, h)

\* sample_limit_cycle (lines 129-142) with the period given by the caller
sample_limit_cycle(f, n, per, s, warmup_time, t, h) ==
  LET s1 == integrate_period(f, s, warmup_time, h)
      r2 == integrate_up_to_thr(f, s1, t, h)
      lc == SampleLoop(f, r2.state, n, per \div n, h)
  IN  [ok |-> r2.ok, limit_cycle |-> IF r2.ok THEN Append(lc, lc[1]) ELSE <<>>]

\* signed distance from the cycle
Amp(s) == s.sg * Pow2(s.lev \div HalfLife)

\* distance(a, b): along the cycle plus across it
distance(f, a, b) == Abs(X0(f, a) - X0(f, b)) + Abs(Amp(a) - Amp(b))

\* lines 166, 174: the sample point moved away from lc_avg (sgn = 1) or
\* towards it (sgn = -1) by the proportional shift
Shifted(f, s, sgn) == [th |-> s.th, sg |-> sgn, lev |-> InitLev(f)]

\* floor of the base-2 logarithm, n >= 1
RECURSIVE Log2(_)
Log2(n) == IF n <= 1 THEN 0 ELSE 1 + Log2(n \div 2)

\* exponents are counted in units of ln(2)/ExpUnit per tick
ExpUnit == 16

\* log(d2/d1)/period
LogRatioSwapped(d1, d2, per) ==
  ((IF d2 >= d1 THEN Log2(d2 \div d1) ELSE -Log2(d1 \div d2)) * ExpUnit) \div per

\* log(d1/d2)/period, lines 171, 179
LogRatio(d1, d2, per) ==
  ((IF d1 >= d2 THEN Log2(d1 \div d2) ELSE -Log2(d2 \div d1)) * ExpUnit) \div per

\* lines 167-171 and 175-179: one measurement from the shifted state s0
Measure(f, s0, per, h) ==
  LET state_1 == integrate_period(f, s0, per, h)
      state_2 == integrate_period(f, state_1, per, h)
      d1 == distance(f, s0, state_1)
      d2 == distance(f, state_1, state_2)
  IN  [d1 |-> d1, d2 |-> d2, exponent |-> LogRatio(d1, d2, per)]

InitFloquet ==
  /\ pc = "flq_sample"
  /\ fn = "oscillator_floquet"
  /\ fld \in FieldIds
  /\ state \in OnCycle(fld)
  /\ thr \in ThrSet
  /\ dt \in DtSet
  /\ period = TruePeriod(fld)
  /\ sampling \in {n \in 1..MaxSampling : TruePeriod(fld) % n = 0}
  /\ cfg \in [warmup_time : {0, TruePeriod(fld)}]
  /\ hist = <<>>
  /\ limitc = <<>>
  /\ res = [exponent_sum |-> 0, exponent_measures |-> 0]
  /\ time = 0 /\ i = 0 /\ xh = 0

\* line 158
FloqSample ==
  /\ pc = "flq_sample"
  /\ LET r == sample_limit_cycle(fld, sampling, period, state, cfg.warmup_time, thr, dt)
     IN  /\ r.ok
         /\ limitc' = r.limit_cycle
  /\ i' = 0
  /\ pc' = "flq_out"
  /\ UNCHANGED <<fld, state, thr, dt, period, time, xh, hist, fn, sampling, cfg, res>>

\* line 158 when sample_limit_cycle does not return
FloqHang ==
  /\ pc = "flq_sample"
  /\ ~sample_limit_cycle(fld, sampling, period, state, cfg.warmup_time, thr, dt).ok
  /\ pc' = "hang"
  /\ UNCHANGED <<fld, state, thr, dt, period, i, time, xh, hist, fn, sampling, limitc, cfg, res>>

\* lines 164-172: the outward measurement of limitc[i]; hist records each
\* measurement taken
FloqOut ==
  /\ pc = "flq_out"
  /\ i < Len(limitc)
  /\ LET m == Measure(fld, Shifted(fld, limitc[i + 1], 1), period, dt)
     IN  /\ res' = [exponent_sum |-> res.exponent_sum + m.exponent,
                    exponent_measures |-> res.exponent_measures + 1]
         /\ hist' = Append(hist, [point |-> limitc[i + 1], dir |-> 1, d1 |-> m.d1, d2 |-> m.d2])
  /\ pc' = "flq_in"
  /\ UNCHANGED <<fld, state, thr, dt, period, i, time, xh, fn, sampling, limitc, cfg>>

\* lines 173-180: the inward measurement of limitc[i]
FloqIn ==
  /\ pc = "flq_in"
  /\ LET m == Measure(fld, Shifted(fld, limitc[i + 1], -1), period, dt)
     IN  /\ res' = [exponent_sum |-> res.exponent_sum + m.exponent,
                    exponent_measures |-> res.exponent_measures + 1]
         /\ hist' = Append(hist, [point |-> limitc[i + 1], dir |-> -1, d1 |-> m.d1, d2 |-> m.d2])
  /\ i' = i + 1
  /\ pc' = "flq_out"
  /\ UNCHANGED <<fld, state, thr, dt, period, time, xh, fn, sampling, limitc, cfg>>

\* line 181
FloqReturn ==
  /\ pc = "flq_out"
  /\ ~(i < Len(limitc))
  /\ res' = [exponent_sum |-> res.exponent_sum,
             exponent_measures |-> res.exponent_measures,
             floquet |-> Floor(res.exponent_sum, res.exponent_measures)]
  /\ pc' = "done"
  /\ UNCHANGED <<fld, state, thr, dt, period, i, time, xh, hist, fn, sampling, limitc, cfg>>

NextFloquet == FloqSample \/ FloqHang \/ FloqOut \/ FloqIn \/ FloqReturn

SpecFloquet == InitFloquet /\ [][NextFloquet]_vars

\* the measurements of one sample point in one direction
MeasuresOf(p, d) == {k \in 1..Len(hist) : hist[k].point = p /\ hist[k].dir = d}

\* C4: oscillator_floquet returns the mean of exactly 2 x sampling
\* measurements, and no sample point contributes more than one outward and
\* one inward measurement.
C4_AsStated ==
  pc = "done" =>
    /\ res.exponent_measures = 2 * sampling
    /\ \A k \in 1..Len(hist) :
         Cardinality(MeasuresOf(hist[k].point, hist[k].dir)) = 1

\* C5: on a stable limit cycle (d2 < d1 in every measurement) the exponent
\* returned by oscillator_floquet is negative.
C5_AsStated ==
  (pc = "done" /\ \A k \in 1..Len(hist) : hist[k].d2 < hist[k].d1) => res.floquet < 0

\* C5, as the code has it: on a stable limit cycle (d2 < d1 in every
\* measurement) the value returned by oscillator_floquet is positive; it is
\* the contraction rate ExpUnit/HalfLife of the field.
C5_Positive ==
  (pc = "done" /\ \A k \in 1..Len(hist) : hist[k].d2 < hist[k].d1) =>
    /\ res.floquet > 0
    /\ res.floquet = ExpUnit \div HalfLife

C5_Witness ==
  /\ pc = "done"
  /\ fn = "oscillator_floquet"
  /\ Len(hist) > 0
  /\ \A k \in 1..Len(hist) : hist[k].d2 < hist[k].d1
  /\ res.floquet > 0

---------------------------------------------------------------------------
(* oscillator_isostables and oscillator_isochrons, as                      *)
(* oscillator_isochrons_isostables calls them (lines 455-458)              *)

\* amplitudes are given by their levels: HalfLife times the base-2 logarithm
\* of the amplitude; LevOf[n] is the level of the number n
LevOf == <<0, 8, 13, 16, 19>>

\* amplitude_domain, as a level relative to amplitude0
DomainSet == {-24, -8, 0, 8, 16, 24}

\* log(a/b)/floquet in ticks, a and b given by their levels
LogOver(la, lb, floquet) == DivRound((la - lb) * ExpUnit, HalfLife * floquet)

\* a ring as sample_local_isostable returns it (lines 340-354): sampling
\* points one period/sampling apart, then the first point again
LocalIso(f, n, sgn, lev0) ==
  [k \in 1..(n + 1) |->
     [th |-> ((k - 1) % n) * (TruePeriod(f) \div n), sg |-> sgn, lev |-> lev0]]

\* ceil(a/b), b > 0
Ceil(a, b) == -Floor(-a, b)

\* the numerator and the denominator of time_range/timestep (lines 410-411)
RangeNum == (cfg.amplitude_domain - cfg.amplitude0) * ExpUnit * sampling
RangeDen == HalfLife * cfg.floquet * period

\* floor(time_range/timestep)
TimeStepsFloor == Floor(RangeNum, RangeDen)

\* int(time_range/timestep) + 1
TimeStepsOffByOne == Trunc(RangeNum, RangeDen) + 1

\* int(time_range/timestep), line 413
TimeSteps == Trunc(RangeNum, RangeDen)

\* list reversal (line 422)
Reverse(q) == [k \in 1..Len(q) |-> q[Len(q) + 1 - k]]

InitIso ==
  /\ pc = "iso_loop"
  /\ fn = "oscillator_isochrons_isostables"
  /\ fld \in FieldIds
  /\ period = TruePeriod(fld)
  /\ sampling \in {n \in 1..MaxSampling : TruePeriod(fld) % n = 0}
  /\ dt \in DtSet
  /\ cfg \in [number_of_isostables : 0..MaxIso, isochron_resolution : 1..MaxRes,
              amplitude_unit : {LevOf[2]}, amplitude_domain : DomainSet,
              amplitude0 : {0}, floquet : {ExpUnit \div HalfLife}]
  /\ hist = [local_iso_in |-> LocalIso(fld, sampling, -1, cfg.amplitude0),
             local_iso_out |-> LocalIso(fld, sampling, 1, cfg.amplitude0)]
  /\ state = [iso_in |-> hist.local_iso_in, iso_out |-> hist.local_iso_out]
  /\ time = LogOver(cfg.amplitude_unit, cfg.amplitude0, cfg.floquet)
  /\ i = 1
  /\ res = [isos |-> <<>>]
  /\ limitc = <<>>
  /\ thr = 0 /\ xh = 0

\* lines 378-385: one shell n = i; time is evolve_time
IsoRing ==
  /\ pc = "iso_loop"
  /\ i <= cfg.number_of_isostables
  /\ state' = [iso_in |-> [k \in 1..Len(state.iso_in) |->
                             integrate_period(fld, state.iso_in[k], -time, -dt)],
               iso_out |-> [k \in 1..Len(state.iso_out) |->
                             integrate_period(fld, state.iso_out[k], -time, -dt)]]
  /\ res' = [isos |-> res.isos \o <<state'.iso_in, state'.iso_out>>]
  /\ time' = LogOver(LevOf[i + 1], LevOf[i], cfg.floquet)
  /\ i' = i + 1
  /\ UNCHANGED <<pc, fld, thr, dt, period, xh, hist, fn, sampling, limitc, cfg>>

\* line 386, then lines 403-411 of oscillator_isochrons
IsoReturn ==
  /\ pc = "iso_loop"
  /\ ~(i <= cfg.number_of_isostables)
  /\ state' = [iso_in |-> hist.local_iso_in, iso_out |-> hist.local_iso_out]
  /\ res' = [isos |-> res.isos,
             isochrons_in |-> [k \in 1..(Len(hist.local_iso_in) - 1) |-> <<hist.local_iso_in[k]>>],
             isochrons_out |-> [k \in 1..(Len(hist.local_iso_in) - 1) |-> <<hist.local_iso_out[k]>>]]
  /\ time' = period \div (Len(hist.local_iso_in) - 1)
  /\ i' = 1
  /\ pc' = "ich_loop"
  /\ UNCHANGED <<fld, thr, dt, period, xh, hist, fn, sampling, limitc, cfg>>

\* the ring index itself
SameIndex(k, t, N) == k

\* (i+t)%N of lines 418-419, for the k-th isochron (sequences count from 1)
ShiftedIndex(k, t, N) == ((k - 1 + t) % N) + 1

\* lines 413-419: one backward step t = i; time is timestep
IchStep ==
  /\ pc = "ich_loop"
  /\ i <= TimeSteps
  /\ LET N == Len(hist.local_iso_in) - 1
         back(ring) == [k \in 1..(N + 1) |->
                          IF k <= N THEN integrate_period(fld, ring[k], -time, -dt)
                          ELSE ring[k]]
         iso_in == back(state.iso_in)
         iso_out == back(state.iso_out)
     IN  /\ state' = [iso_in |-> iso_in, iso_out |-> iso_out]
         /\ res' = [isos |-> res.isos,
                    isochrons_in |-> [k \in 1..N |->
                       Append(res.isochrons_in[k], iso_in[ShiftedIndex(k, i, N)])],
                    isochrons_out |-> [k \in 1..N |->
                       Append(res.isochrons_out[k], iso_out[ShiftedIndex(k, i, N)])]]
  /\ i' = i + 1
  /\ UNCHANGED <<pc, fld, thr, dt, period, time, xh, hist, fn, sampling, limitc, cfg>>

\* lines 421-423 and 458
IchJoin ==
  /\ pc = "ich_loop"
  /\ ~(i <= TimeSteps)
  /\ LET N == Len(hist.local_iso_in) - 1
     IN  res' = [isostables |-> res.isos,
                 isochrons |-> [j \in 1..Ceil(N, cfg.isochron_resolution) |->
                    Reverse(res.isochrons_in[(j - 1) * cfg.isochron_resolution + 1])
                      \o res.isochrons_out[(j - 1) * cfg.isochron_resolution + 1]]]
  /\ pc' = "done"
  /\ UNCHANGED <<fld, state, thr, dt, period, i, time, xh, hist, fn, sampling, limitc, cfg>>

NextIso == IsoRing \/ IsoReturn \/ IchStep \/ IchJoin

SpecIso == InitIso /\ [][NextIso]_vars

\* the point s carried backward by t timesteps of period/sampling
Back(s, t) == one_step_integrator(fld, s, -(t * (period \div sampling)))

\* C12: in oscillator_isochrons the point appended to isochron i at backward
\* step t is the point that started at local-ring index (i+t) mod N carried
\* backward by exactly t*period/N, so every point of isochron i has the
\* phase of ring point i; in the joined curve the inside points come in
\* decreasing t, then the outside points in increasing t.
C12_Isochrons ==
  /\ pc = "ich_loop" =>
       \A k \in 1..sampling : \A t \in 0..(Len(res.isochrons_in[k]) - 1) :
         /\ res.isochrons_in[k][t + 1] = Back(hist.local_iso_in[((k - 1 + t) % sampling) + 1], t)
         /\ res.isochrons_out[k][t + 1] = Back(hist.local_iso_out[((k - 1 + t) % sampling) + 1], t)
         /\ res.isochrons_in[k][t + 1].th = hist.local_iso_in[k].th
         /\ res.isochrons_out[k][t + 1].th = hist.local_iso_out[k].th
  /\ (pc = "done" /\ fn = "oscillator_isochrons_isostables") =>
       \A j \in 1..Len(res.isochrons) :
         LET k == (j - 1) * cfg.isochron_resolution + 1
             L == Len(res.isochrons[j]) \div 2
         IN  \A p \in 1..L :
               /\ res.isochrons[j][p] =
                    Back(hist.local_iso_in[((k - 1 + (L - p)) % sampling) + 1], L - p)
               /\ res.isochrons[j][L + p] =
                    Back(hist.local_iso_out[((k - 1 + (p - 1)) % sampling) + 1], p - 1)
               /\ res.isochrons[j][p].th = hist.local_iso_in[k].th
               /\ res.isochrons[j][L + p].th = hist.local_iso_out[k].th

C12_Witness ==
  /\ pc = "done"
  /\ fn = "oscillator_isochrons_isostables"
  /\ sampling = 4
  /\ cfg.isochron_resolution = 1
  /\ Len(res.isochrons) = 4
  /\ Len(res.isochrons[2]) >= 6
  /\ res.isochrons[2][1].th = hist.local_iso_in[2].th
  /\ res.isochrons[2][1].lev > res.isochrons[2][2].lev

\* the rings come in pairs: for shell n the inside ring, then the outside one
RingOrder ==
  \A n \in 1..cfg.number_of_isostables :
    /\ \A k \in 1..(sampling + 1) :
         /\ res.isostables[2 * n - 1][k].sg = -1
         /\ res.isostables[2 * n][k].sg = 1
         /\ res.isostables[2 * n - 1][k].lev = res.isostables[2 * n][k].lev
    /\ n > 1 => res.isostables[2 * n][1].lev > res.isostables[2 * n - 2][1].lev

\* C6: oscillator_isochrons_isostables returns 2*number_of_isostables rings
\* (inside then outside for n = 1..number_of_isostables) and
\* ceil(sampling/isochron_resolution) isochrons, each of
\* 2*(floor(time_range/timestep)+1) points.
C6_AsStated ==
  pc = "done" =>
    /\ Len(res.isostables) = 2 * cfg.number_of_isostables
    /\ RingOrder
    /\ Len(res.isochrons) = Ceil(sampling, cfg.isochron_resolution)
    /\ \A j \in 1..Len(res.isochrons) :
         Len(res.isochrons[j]) = 2 * (TimeStepsFloor + 1)

\* C6, as the code has it: the same counts, an isochron having
\* 2*(floor(time_range/timestep)+1) points when time_range >= 0 and 2 points
\* (the inside and the outside start point) when time_range < 0.
C6_NonNegative ==
  pc = "done" =>
    /\ Len(res.isostables) = 2 * cfg.number_of_isostables
    /\ RingOrder
    /\ Len(res.isochrons) = Ceil(sampling, cfg.isochron_resolution)
    /\ \A j \in 1..Len(res.isochrons) :
         Len(res.isochrons[j]) = IF RangeNum >= 0 THEN 2 * (TimeStepsFloor + 1) ELSE 2

C6_Witness ==
  /\ pc = "done"
  /\ fn = "oscillator_isochrons_isostables"
  /\ cfg.number_of_isostables = 2
  /\ Len(res.isostables) = 4
  /\ sampling = 4 /\ cfg.isochron_resolution = 3
  /\ Len(res.isochrons) = 2
  /\ Len(res.isochrons[1]) > 2

---------------------------------------------------------------------------
(* oscillator_PRC and oscillator_amplitude: the configuration of their     *)
(* nested calls                                                            *)

\* oscillator_phase (lines 195-198) as a function; the phase is counted in
\* units of 2*pi/period
oscillator_phase(f, s, per, warmup_periods, t, h) ==
  LET s1 == integrate_period(f, s, warmup_periods * per, h)
      r == time_up_to_thr(f, s1, t, h)
  IN  [ok |-> r.ok, time |-> r.time, phase |-> IF r.ok THEN per - r.time ELSE 0]

\* n steps of size h from s (lines 212-214, 221-223)
RECURSIVE Trajectory(_, _, _, _)
Trajectory(f, s, h, n) ==
  IF n <= 0 \/ s.th \notin 0..(TruePeriod(f) - 1) THEN <<>>
  ELSE LET s1 == one_step_integrator(f, s, h)
       IN  <<s1>> \o Trajectory(f, s1, h, n - 1)

\* the radius of the cycle, in the units of Amp
RadiusUnit == 1024

\* lines 215-217, 224-226: the summed variance of a trajectory around its
\* mean grows with the squared distance of its points from the centre; the
\* forward and the backward trajectory have the same number of points, so
\* the sums are compared
SumSquares(traj) ==
  SumSeq([k \in 1..Len(traj) |-> (RadiusUnit + Amp(traj[k])) * (RadiusUnit + Amp(traj[k]))])

\* inside_limit_cycle (lines 209-229)
inside_limit_cycle(f, s, per, h) ==
  LET std_f == SumSquares(Trajectory(f, s, h, Floor(per, h)))
      std_b == SumSquares(Trajectory(f, s, -h, Floor(per, h)))
  IN  std_f > std_b

\* exp(floquet*time) times d
ExpTimes(d, floquet, t) ==
  LET e == Floor(floquet * t, ExpUnit)
  IN  IF e >= 0 THEN d * Pow2(e) ELSE d \div Pow2(-e)

\* the caller's dt: a small step or the default of the signatures
CfgDtSet == DtSet \cup {DefaultDt}

\* the zero-phase point of the cycle for thr and dt
ZeroPhase(f, t, h) == integrate_up_to_thr(f, [th |-> 0, sg |-> 0, lev |-> 0], t, h)

\* the dt the inside/outside test of line 251 is given: the call names none,
\* so it is the default of inside_limit_cycle (line 201)
InsideDt(h) == DefaultDt

\* the configuration the phase call of line 281 is given: the call names
\* neither warmup_periods nor dt, so they are the defaults of
\* oscillator_phase (line 184)
PhaseCfg(warmup_periods, h) == [warmup_periods |-> DefaultWarmupPeriods, dt |-> DefaultDt]

InitCfg ==
  /\ fld \in FieldIds
  /\ thr \in ThrSet
  /\ dt \in CfgDtSet
  /\ period = TruePeriod(fld)
  /\ hist = <<>>
  /\ time = 0 /\ i = 0 /\ xh = 0 /\ limitc = <<>>
  /\ \/ /\ fn = "oscillator_PRC"
        /\ pc = "prc_sample"
        /\ state \in {[th |-> 0, sg |-> 0, lev |-> 0]}
        /\ sampling \in {n \in 1..MaxSampling : TruePeriod(fld) % n = 0}
        /\ cfg \in [initial_warmup_periods : WarmSet, warmup_periods : WarmSet,
                    direction : {-1, 1}]
        /\ res = <<>>
     \/ /\ fn = "oscillator_amplitude"
        /\ pc = "amp_phase"
        /\ state \in States(fld) \ OnCycle(fld)
        /\ sampling = 0
        /\ ZeroPhase(fld, thr, dt).ok
        /\ cfg \in [phase_warmup_periods : WarmSet, floquet : {ExpUnit \div HalfLife},
                    zero_phase_lc : {ZeroPhase(fld, thr, dt).state}]
        /\ res = <<>>

\* line 277
PRCSample ==
  /\ pc = "prc_sample"
  /\ LET r == sample_limit_cycle(fld, sampling, period, state,
                                 cfg.initial_warmup_periods * period, thr, dt)
     IN  /\ r.ok
         /\ limitc' = r.limit_cycle
  /\ i' = 0
  /\ pc' = "prc_loop"
  /\ UNCHANGED <<fld, state, thr, dt, period, time, xh, hist, fn, sampling, cfg, res>>

\* line 277 when sample_limit_cycle does not return
PRCSampleHang ==
  /\ pc = "prc_sample"
  /\ ~sample_limit_cycle(fld, sampling, period, state,
                         cfg.initial_warmup_periods * period, thr, dt).ok
  /\ pc' = "hang"
  /\ UNCHANGED <<fld, state, thr, dt, period, i, time, xh, hist, fn, sampling, limitc, cfg, res>>

\* lines 279-281: the sample point i is shifted along direction and its
\* phase evaluated; hist records the configuration of each nested call
PRCPhase ==
  /\ pc = "prc_loop"
  /\ i < sampling
  /\ LET state_stim == [th |-> limitc[i + 1].th, sg |-> cfg.direction, lev |-> InitLev(fld)]
         c == PhaseCfg(cfg.warmup_periods, dt)
         r == oscillator_phase(fld, state_stim, period, c.warmup_periods, thr, c.dt)
     IN  /\ r.ok
         /\ res' = Append(res, r.phase - i * (period \div sampling))
         /\ hist' = Append(hist, [callee |-> "oscillator_phase",
                                  warmup_periods |-> c.warmup_periods, dt |-> c.dt])
  /\ i' = i + 1
  /\ UNCHANGED <<pc, fld, state, thr, dt, period, time, xh, fn, sampling, limitc, cfg>>

\* line 281 when oscillator_phase does not return
PRCPhaseHang ==
  /\ pc = "prc_loop"
  /\ i < sampling
  /\ LET state_stim == [th |-> limitc[i + 1].th, sg |-> cfg.direction, lev |-> InitLev(fld)]
         c == PhaseCfg(cfg.warmup_periods, dt)
     IN  ~oscillator_phase(fld, state_stim, period, c.warmup_periods, thr, c.dt).ok
  /\ pc' = "hang"
  /\ UNCHANGED <<fld, state, thr, dt, period, i, time, xh, hist, fn, sampling, limitc, cfg, res>>

\* line 282
PRCReturn ==
  /\ pc = "prc_loop"
  /\ ~(i < sampling)
  /\ pc' = "done"
  /\ UNCHANGED <<fld, state, thr, dt, period, i, time, xh, hist, fn, sampling, limitc, cfg, res>>

\* lines 245-247
AmpPhase ==
  /\ pc = "amp_phase"
  /\ LET r == oscillator_phase(fld, state, period, cfg.phase_warmup_periods, thr, dt)
     IN  /\ r.ok
         /\ time' = period - r.phase
  /\ hist' = Append(hist, [callee |-> "oscillator_phase",
                           warmup_periods |-> cfg.phase_warmup_periods, dt |-> dt])
  /\ pc' = "amp_evolve"
  /\ UNCHANGED <<fld, state, thr, dt, period, i, xh, fn, sampling, limitc, cfg, res>>

\* line 245 when oscillator_phase does not return
AmpPhaseHang ==
  /\ pc = "amp_phase"
  /\ ~oscillator_phase(fld, state, period, cfg.phase_warmup_periods, thr, dt).ok
  /\ pc' = "hang"
  /\ UNCHANGED <<fld, state, thr, dt, period, i, time, xh, hist, fn, sampling, limitc, cfg, res>>

\* line 249
AmpEvolve ==
  /\ pc = "amp_evolve"
  /\ state' = integrate_period(fld, state, time, dt)
  /\ hist' = Append(hist, [callee |-> "integrate_period", warmup_periods |-> 0, dt |-> dt])
  /\ pc' = "amp_inside"
  /\ UNCHANGED <<fld, thr, dt, period, i, time, xh, fn, sampling, limitc, cfg, res>>

\* lines 251-255; the value is twice the amplitude
AmpInside ==
  /\ pc = "amp_inside"
  /\ LET sign == IF inside_limit_cycle(fld, state, period, InsideDt(dt)) THEN -1 ELSE 1
     IN  res' = <<sign * ExpTimes(distance(fld, state, cfg.zero_phase_lc), cfg.floquet, time)>>
  /\ hist' = Append(hist, [callee |-> "inside_limit_cycle", warmup_periods |-> 0,
                           dt |-> InsideDt(dt)])
  /\ pc' = "done"
  /\ UNCHANGED <<fld, state, thr, dt, period, i, time, xh, fn, sampling, limitc, cfg>>

NextCfg ==
  \/ PRCSample \/ PRCSampleHang \/ PRCPhase \/ PRCPhaseHang \/ PRCReturn
  \/ AmpPhase \/ AmpPhaseHang \/ AmpEvolve \/ AmpInside

SpecCfg == InitCfg /\ [][NextCfg]_vars

\* C9: every nested integration uses the configuration the caller passed:
\* in oscillator_PRC each phase is evaluated with the caller's
\* warmup_periods and dt, and in oscillator_amplitude the inside/outside
\* test integrates with the caller's dt.
C9_AsStated ==
  \A k \in 1..Len(hist) :
    /\ hist[k].dt = dt
    /\ (fn = "oscillator_PRC" /\ hist[k].callee = "oscillator_phase")
         => hist[k].warmup_periods = cfg.warmup_periods

---------------------------------------------------------------------------
(* sample_local_isostable *)

\* oscillator_amplitude (lines 245-255) as a function; the value is twice
\* the amplitude
oscillator_amplitude(f, s, per, floquet, zero_phase_lc, phase_warmup_periods, t, h) ==
  LET r == oscillator_phase(f, s, per, phase_warmup_periods, t, h)
      tm == per - r.phase
      s1 == integrate_period(f, s, tm, h)
      sign == IF inside_limit_cycle(f, s1, per, InsideDt(h)) THEN -1 ELSE 1
  IN  [ok |-> r.ok,
       amplitude |-> IF r.ok THEN sign * ExpTimes(distance(f, s1, zero_phase_lc), floquet, tm)
                     ELSE 0]

\* the signed difference of two positions on the cycle, in -P/2 .. P/2 - 1
PhaseGap(f, a, b) ==
  LET P == TruePeriod(f)
  IN  ((a - b + P \div 2) % P) - P \div 2

\* 16 * 2^(j/HalfLife), j = 0..HalfLife-1, rounded
Frac == <<16, 17, 19, 21, 23, 25, 27, 29>>

\* d * 2^(k/HalfLife), rounded
ScaleBy(d, k) ==
  LET q == k \div HalfLife
      j == k % HalfLife
  IN  IF q >= 0 THEN DivRound(d * Pow2(q) * Frac[j + 1], 16)
      ELSE DivRound(d * Frac[j + 1], 16 * Pow2(-q))

\* lines 346 and 352: ref + (state - ref) * factor, the factor being
\* sgn * 2^(k/HalfLife); the deviation along the cycle and the deviation
\* across it are both multiplied
Rescale(f, ref, s, k, sgn) ==
  [th |-> (ref.th + sgn * ScaleBy(PhaseGap(f, s.th, ref.th), k)) % TruePeriod(f),
   sg |-> sgn * s.sg,
   lev |-> IF s.sg = 0 THEN 0 ELSE s.lev + k]

\* the level of the factor exp(floquet*period/sampling), line 345
FactorLev(floquet, per, n) == (HalfLife * floquet * (per \div n)) \div ExpUnit

\* the level of |ampl0/ampl|, line 352
RatioLev(ampl0, ampl) == HalfLife * (Log2(Abs(ampl0)) - Log2(Abs(ampl)))

\* the limit-cycle sample the deviation of iteration s is taken from:
\* limitc[s], lines 346 and 352 (sequences count from 1)
RefPoint(lc, s) == lc[s + 1]

\* the element of a one-element set
Only(S) == CHOOSE x \in S : TRUE

\* line 338, from the aligned state st
SetupAmpl(f, per, floquet, lc, st, t, h) ==
  Only({IF ~a0.ok THEN [status |-> "hang"]
        ELSE [status |-> "ok", limitc |-> lc, state_sh |-> st, ampl0 |-> a0.amplitude] :
        a0 \in {oscillator_amplitude(f, st, per, floquet, lc[1], DefaultWarmupPeriods, t, h)}})

\* lines 334-336, from the phase r of the shifted point sh; "error" when
\* phase/abs(phase) divides by zero
SetupAlign(f, per, floquet, lc, sh, r, t, h) ==
  LET phase == IF 2 * r.phase > per THEN r.phase - per ELSE r.phase
  IN  IF ~r.ok THEN [status |-> "hang"]
      ELSE IF phase = 0 THEN [status |-> "error"]
      ELSE Only({SetupAmpl(f, per, floquet, lc, st, t, h) :
                 st \in {integrate_period(f, sh, -phase, -Sign(phase) * h)}})

\* lines 329-333, from the sampled limit cycle lc
SetupPhase(f, per, floquet, sign, lc, t, h) ==
  IF ~lc.ok THEN [status |-> "hang"]
  ELSE Only({SetupAlign(f, per, floquet, lc.limit_cycle, Shifted(f, lc.limit_cycle[1], sign), r, t, h) :
             r \in {oscillator_phase(f, Shifted(f, lc.limit_cycle[1], sign), per,
                                     DefaultWarmupPeriods, t, h)}})

\* lines 327-338: the limit cycle, the shifted first point aligned with it
\* and the reference amplitude; status is "hang" when a crossing loop never
\* ends and "error" when a division by zero is raised
LocalSetup(f, n, per, floquet, sign, s0, warmup_periods, t, h) ==
  Only({SetupPhase(f, per, floquet, sign, lc, t, h) :
        lc \in {sample_limit_cycle(f, n, per, s0, warmup_periods * per, t, h)}})

\* lines 351-352, from the phase-adjusted state c
IterAmpl(f, per, floquet, lc, ampl0, a, c, s, t, h) ==
  Only({IF ~am.ok THEN [status |-> "hang"]
        ELSE IF am.amplitude = 0 THEN [status |-> "error"]
        ELSE [status |-> "ok",
              state_sh |-> Rescale(f, RefPoint(lc, s), c, RatioLev(ampl0, am.amplitude),
                                   Sign(ampl0) * Sign(am.amplitude)),
              rescaled |-> <<[s |-> s, ref |-> RefPoint(lc, s), state |-> a],
                             [s |-> s, ref |-> RefPoint(lc, s), state |-> c]>>] :
        am \in {oscillator_amplitude(f, c, per, floquet, lc[1], DefaultWarmupPeriods, t, h)}})

\* lines 348-349, from the rescaled state b and its phase r
IterPhase(f, n, per, floquet, lc, ampl0, a, b, r, s, t, h) ==
  LET phase_diff == (s + 1) * (per \div n) - r.phase
  IN  IF ~r.ok THEN [status |-> "hang"]
      ELSE IF phase_diff = 0 THEN [status |-> "error"]
      ELSE Only({IterAmpl(f, per, floquet, lc, ampl0, a, c, s, t, h) :
                 c \in {integrate_period(f, b, phase_diff, Sign(phase_diff) * h)}})

\* lines 345-348, from the advanced state a
IterRescale(f, n, per, floquet, lc, ampl0, a, s, t, h) ==
  Only({Only({IterPhase(f, n, per, floquet, lc, ampl0, a, b, r, s, t, h) :
              r \in {oscillator_phase(f, b, per, DefaultWarmupPeriods, t, h)}}) :
        b \in {Rescale(f, RefPoint(lc, s), a, FactorLev(floquet, per, n), 1)}})

\* lines 343-352: one iteration s of the loop from state_sh
LocalIter(f, n, per, floquet, lc, ampl0, sh, s, t, h) ==
  Only({IterRescale(f, n, per, floquet, lc, ampl0, a, s, t, h) :
        a \in {integrate_period(f, sh, per \div n, h)}})

InitLocal ==
  /\ pc = "sli_setup"
  /\ fn = "sample_local_isostable"
  /\ fld \in FieldIds
  /\ state \in {s \in OnCycle(fld) : s.th % 4 = 0}
  /\ thr \in ThrSet
  /\ dt \in DtSet
  /\ period = TruePeriod(fld)
  /\ sampling \in {n \in 1..MaxSampling : TruePeriod(fld) % n = 0}
  /\ cfg \in [sign : {-1, 1}, warmup_periods : WarmSet, floquet : {ExpUnit \div HalfLife}]
  /\ hist = <<>>
  /\ limitc = <<>>
  /\ res = [iso |-> <<>>, ampl0 |-> 0]
  /\ time = 0 /\ i = 0 /\ xh = 0

\* lines 327-340
SLISetup ==
  /\ pc = "sli_setup"
  /\ LET r == LocalSetup(fld, sampling, period, cfg.floquet, cfg.sign, state,
                         cfg.warmup_periods, thr, dt)
     IN  /\ r.status = "ok"
         /\ limitc' = r.limitc
         /\ state' = r.state_sh
         /\ res' = [iso |-> <<>>, ampl0 |-> r.ampl0]
  /\ i' = 0
  /\ pc' = "sli_loop"
  /\ UNCHANGED <<fld, thr, dt, period, time, xh, hist, fn, sampling, cfg>>

\* lines 327-338 when a nested call does not return or raises
SLISetupFail ==
  /\ pc = "sli_setup"
  /\ LET r == LocalSetup(fld, sampling, period, cfg.floquet, cfg.sign, state,
                         cfg.warmup_periods, thr, dt)
     IN  /\ r.status # "ok"
         /\ pc' = r.status
  /\ UNCHANGED <<fld, state, thr, dt, period, i, time, xh, hist, fn, sampling, limitc, cfg, res>>

\* lines 341-352: iteration s = i; hist records, for each of the two
\* rescalings, the state that is rescaled and the reference point used
SLIIter ==
  /\ pc = "sli_loop"
  /\ i < sampling
  /\ LET r == LocalIter(fld, sampling, period, cfg.floquet, limitc, res.ampl0, state, i, thr, dt)
     IN  /\ r.status = "ok"
         /\ state' = r.state_sh
         /\ hist' = hist \o r.rescaled
  /\ res' = [iso |-> Append(res.iso, state), ampl0 |-> res.ampl0]
  /\ i' = i + 1
  /\ UNCHANGED <<pc, fld, thr, dt, period, time, xh, fn, sampling, limitc, cfg>>

\* lines 343-352 when a nested call does not return or raises
SLIIterFail ==
  /\ pc = "sli_loop"
  /\ i < sampling
  /\ LET r == LocalIter(fld, sampling, period, cfg.floquet, limitc, res.ampl0, state, i, thr, dt)
     IN  /\ r.status # "ok"
         /\ pc' = r.status
  /\ UNCHANGED <<fld, state, thr, dt, period, i, time, xh, hist, fn, sampling, limitc, cfg, res>>

\* lines 353-354
SLIClose ==
  /\ pc = "sli_loop"
  /\ ~(i < sampling)
  /\ res' = [iso |-> Append(res.iso, res.iso[1]), ampl0 |-> res.ampl0]
  /\ pc' = "done"
  /\ UNCHANGED <<fld, state, thr, dt, period, i, time, xh, hist, fn, sampling, limitc, cfg>>

NextLocal == SLISetup \/ SLISetupFail \/ SLIIter \/ SLIIterFail \/ SLIClose

SpecLocal == InitLocal /\ [][NextLocal]_vars

\* C11: in sample_local_isostable the deviation that is rescaled after each
\* advance by period/sampling is the deviation from the limit-cycle sample
\* at the phase of the advanced state: the state advanced in iteration s
\* (which started aligned with limitc[s]) is at the phase of the reference
\* point used.
C11_AsStated ==
  \A k \in 1..Len(hist) :
    (k % 2 = 1 /\ res.iso[hist[k].s + 1].th = limitc[hist[k].s + 1].th)
      => hist[k].state.th = hist[k].ref.th

====
